---- MODULE Spec2Model ----
(***************************************************************************)
(* Model of the generated record class Foo (src/oml_output/Foo.py).        *)
(*                                                                         *)
(* A Foo instance is a fixed-layout object (__slots__) with three storage  *)
(* slots _meow, _hello, _isTrue.  The class exposes three properties:      *)
(* meow (getter only), hello and isTrue (getter and setter).  Python does  *)
(* not enforce the annotations int / str / bool at run time, so every      *)
(* argument ranges over values of all types.                               *)
(*                                                                         *)
(* The operations are those of the public interface of an instance:        *)
(* construction, and reading, assigning and deleting an attribute by name, *)
(* the name being one of the three properties or an undeclared name.       *)
(* The slot names themselves (leading underscore) are private storage and  *)
(* are written only by __init__ and the setters.                           *)
(***************************************************************************)
EXTENDS Integers, Sequences, FiniteSets, TLC

\* ---------------------------------------------------------------- bounds
MaxInt == 0
NumStrs == 2

\* ---------------------------------------------------------------- values
\* A Python value is a pair of its run-time type and its payload.
StrPool == <<"hi", "bye", "", "a", "b", "c">>

Ints == {[t |-> "int", v |-> i] : i \in 0..MaxInt}
Strs == {[t |-> "str", v |-> StrPool[i]] : i \in 1..NumStrs}
Bools == {[t |-> "bool", v |-> b] : b \in BOOLEAN}
Values == Ints \cup Strs \cup Bools

\* a slot that holds no value (before __init__ has assigned it)
Unset == [t |-> "unset", v |-> 0]
\* the operation produced no value (a statement, or it raised)
NoRet == [t |-> "noret", v |-> 0]

\* ---------------------------------------------------------------- class
slots == {"_meow", "_hello", "_isTrue"}

\* the declared (annotated) type of each property
annotations == [meow |-> "int", hello |-> "str", isTrue |-> "bool"]

Properties == {"meow", "hello", "isTrue"}
\* attribute names a caller may use: the properties and an undeclared one
Names == Properties \cup {"other"}

\* object.__new__: every slot exists and is empty
new == [n \in slots |-> Unset]

Foo_swapped(self, meow, hello, isTrue) ==
    [self EXCEPT !["_meow"] = meow, !["_hello"] = hello, !["_isTrue"] = hello]

\* __init__
Foo(self, meow, hello, isTrue) ==
    [self EXCEPT !["_meow"] = meow, !["_hello"] = hello, !["_isTrue"] = isTrue]

meow(self) == self["_meow"]

hello(self) == self["_hello"]

hello_setter_noop(self, value) == self

hello_setter_clobber(self, value) ==
    [self EXCEPT !["_hello"] = value, !["_isTrue"] = value]

hello_setter(self, value) == [self EXCEPT !["_hello"] = value]

isTrue(self) == self["_isTrue"]

isTrue_setter_negated(self, value) ==
    [self EXCEPT !["_isTrue"] =
        IF value.t = "bool" THEN [t |-> "bool", v |-> ~value.v] ELSE value]

isTrue_setter(self, value) == [self EXCEPT !["_isTrue"] = value]

\* ------------------------------------------------- attribute protocol
\* The result of an attribute operation: the object afterwards, the value
\* returned and the exception raised ("none" when it returned normally).
Result(o, r, e) == [obj |-> o, ret |-> r, exc |-> e]

\* getattr(self, name)
getattr(self, name) ==
    CASE name = "meow"   -> Result(self, meow(self), "none")
      [] name = "hello"  -> Result(self, hello(self), "none")
      [] name = "isTrue" -> Result(self, isTrue(self), "none")
      [] OTHER           -> Result(self, NoRet, "AttributeError")

setattr_meow_writable(self, name, value) ==
    CASE name = "meow"   -> Result([self EXCEPT !["_meow"] = value], NoRet, "none")
      [] name = "hello"  -> Result(hello_setter(self, value), NoRet, "none")
      [] name = "isTrue" -> Result(isTrue_setter(self, value), NoRet, "none")
      [] OTHER           -> Result(self, NoRet, "AttributeError")

setattr_meow_ignored(self, name, value) ==
    CASE name = "meow"   -> Result(self, NoRet, "none")
      [] name = "hello"  -> Result(hello_setter(self, value), NoRet, "none")
      [] name = "isTrue" -> Result(isTrue_setter(self, value), NoRet, "none")
      [] OTHER           -> Result(self, NoRet, "AttributeError")

setattr_open(self, name, value) ==
    CASE name = "meow"   -> Result(self, NoRet, "AttributeError")
      [] name = "hello"  -> Result(hello_setter(self, value), NoRet, "none")
      [] name = "isTrue" -> Result(isTrue_setter(self, value), NoRet, "none")
      [] OTHER           -> Result((name :> value) @@ self, NoRet, "none")

\* setattr(self, name, value): a property with a setter runs it, a property
\* without one raises, and an undeclared name raises because the instance
\* has slots only.
setattr(self, name, value) ==
    CASE name = "meow"   -> Result(self, NoRet, "AttributeError")
      [] name = "hello"  -> Result(hello_setter(self, value), NoRet, "none")
      [] name = "isTrue" -> Result(isTrue_setter(self, value), NoRet, "none")
      [] OTHER           -> Result(self, NoRet, "AttributeError")

\* delattr(self, name): no property has a deleter, and an undeclared name
\* has nothing to delete.
delattr(self, name) == Result(self, NoRet, "AttributeError")

\* ---------------------------------------------------------------- state
VARIABLES
    pc,      \* "new" before Foo(...) has run, "live" afterwards
    obj,     \* the instance: slot name -> value
    ret,     \* value returned by the last operation
    exc,     \* exception raised by the last operation
    op,      \* the last operation: [name, attr, args]
    prev,    \* the operation before it
    meow0    \* the meow argument the instance was constructed with

vars == <<pc, obj, ret, exc, op, prev, meow0>>

Op(n, a, s) == [name |-> n, attr |-> a, args |-> s]
NoOp == Op("none", "none", <<>>)

Init ==
    /\ pc = "new"
    /\ obj = new
    /\ ret = NoRet
    /\ exc = "none"
    /\ op = NoOp
    /\ prev = NoOp
    /\ meow0 = Unset

\* r = Foo(a, b, c)
Construct ==
    \E a \in Values, b \in Values, c \in Values :
        /\ pc = "new"
        /\ obj' = Foo(obj, a, b, c)
        /\ pc' = "live"
        /\ ret' = NoRet
        /\ exc' = "none"
        /\ prev' = op
        /\ op' = Op("new", "__init__", <<a, b, c>>)
        /\ meow0' = a

Apply(o, res) ==
    /\ obj' = res.obj
    /\ ret' = res.ret
    /\ exc' = res.exc
    /\ prev' = op
    /\ op' = o
    /\ UNCHANGED <<pc, meow0>>

\* r.<name>
Get ==
    \E n \in Names :
        /\ pc = "live"
        /\ Apply(Op("get", n, <<>>), getattr(obj, n))

\* r.<name> = value
Set ==
    \E n \in Names, value \in Values :
        /\ pc = "live"
        /\ Apply(Op("set", n, <<value>>), setattr(obj, n, value))

\* del r.<name>
Del ==
    \E n \in Names :
        /\ pc = "live"
        /\ Apply(Op("del", n, <<>>), delattr(obj, n))

Next == Construct \/ Get \/ Set \/ Del

Spec == Init /\ [][Next]_vars

\* ---------------------------------------------------------------- claims
Live == pc = "live"
IsOp(o, n, a) == o.name = n /\ o.attr = a
\* the arguments conform to the annotations of __init__
WellTyped(args) ==
    /\ args[1].t = annotations.meow
    /\ args[2].t = annotations.hello
    /\ args[3].t = annotations.isTrue

\* C1: after construction, whatever operations were applied, the stored meow
\* and the value every read of meow returns are the constructor's argument.
C1_MeowImmutable ==
    Live => /\ meow(obj) = meow0
            /\ (IsOp(op, "get", "meow") => ret = meow0 /\ exc = "none")

\* a read of meow right after an attempted write of a different value
C1_Witness ==
    /\ IsOp(prev, "set", "meow") /\ prev.args[1] # meow0
    /\ IsOp(op, "get", "meow") /\ ret = meow0

\* C2: construction with an argument that does not conform to its declared
\* type raises a type error and yields no usable instance.
C2_MistypedConstructionFails ==
    (op.name = "new" /\ ~WellTyped(op.args)) => (exc = "TypeError" /\ ~Live)

\* C3: right after Foo(a, b, c) with well-typed arguments the three getters
\* return a, b and c.
C3_ConstructThenRead ==
    (op.name = "new" /\ WellTyped(op.args)) =>
        /\ Live /\ exc = "none"
        /\ getattr(obj, "meow") = Result(obj, op.args[1], "none")
        /\ getattr(obj, "hello") = Result(obj, op.args[2], "none")
        /\ getattr(obj, "isTrue") = Result(obj, op.args[3], "none")

\* a well-typed construction whose hello and isTrue arguments differ
C3_Witness ==
    /\ op.name = "new" /\ WellTyped(op.args) /\ Live
    /\ op.args[1].v = 0 /\ op.args[2].v = "hi" /\ op.args[3].v = TRUE

\* C4: a read of hello that directly follows a write of the string s through
\* the hello setter returns s.
C4_HelloWriteThenRead ==
    (IsOp(prev, "set", "hello") /\ prev.args[1].t = "str" /\ IsOp(op, "get", "hello"))
        => (ret = prev.args[1] /\ exc = "none")

\* hello was constructed as "hi", and "bye" is written and read back
C4_Witness ==
    /\ IsOp(prev, "set", "hello") /\ prev.args[1] = [t |-> "str", v |-> "bye"]
    /\ IsOp(op, "get", "hello") /\ ret = [t |-> "str", v |-> "bye"]

\* C5: a read of isTrue that directly follows a write of the boolean b
\* through the isTrue setter returns b.
C5_IsTrueWriteThenRead ==
    (IsOp(prev, "set", "isTrue") /\ prev.args[1].t = "bool" /\ IsOp(op, "get", "isTrue"))
        => (ret = prev.args[1] /\ exc = "none")

\* FALSE is written through the setter and read back
C5_Witness ==
    /\ IsOp(prev, "set", "isTrue") /\ prev.args[1] = [t |-> "bool", v |-> FALSE]
    /\ IsOp(op, "get", "isTrue") /\ ret = [t |-> "bool", v |-> FALSE]

\* C6: a write through the hello or the isTrue setter of a value that is not
\* of the declared type raises a type error (and stores nothing).
C6_MistypedWriteFails ==
    \A a \in {"hello", "isTrue"} :
        (IsOp(op, "set", a) /\ op.args[1].t # annotations[a]) => exc = "TypeError"

C9_FieldTypesInvariant ==
    Live => /\ meow(obj).t = annotations.meow
            /\ hello(obj).t = annotations.hello
            /\ isTrue(obj).t = annotations.isTrue

\* C10: a write of hello leaves meow and isTrue as they were, a write of
\* isTrue leaves meow and hello as they were, and a read changes no slot.
C10_Frame ==
    [][/\ (op'.name = "set" /\ op'.attr = "hello") =>
              (meow(obj') = meow(obj) /\ isTrue(obj') = isTrue(obj))
       /\ (op'.name = "set" /\ op'.attr = "isTrue") =>
              (meow(obj') = meow(obj) /\ hello(obj') = hello(obj))
       /\ (op'.name = "get") => obj' = obj]_vars

\* hello was rewritten to a new value while isTrue holds a value of another
\* type than the one written
C10_Witness ==
    /\ IsOp(op, "set", "hello") /\ exc = "none"
    /\ hello(obj) = op.args[1] /\ isTrue(obj) # op.args[1]
    /\ IsOp(prev, "set", "isTrue") /\ hello(obj) = [t |-> "str", v |-> "bye"]

====
